---- MODULE Spec2Model ----
(***************************************************************************)
(* Mailchimp Transactional (Mandrill) demo: the template existence check,  *)
(* the ensure/create operation and the send scenarios, in their web        *)
(* (app.py) and command-line (email_with_template.py,                      *)
(* sms_single_recipient.py) forms, run by callers against one remote       *)
(* account.  Every remote call is one atomic step; the code between two    *)
(* remote calls is local to its caller and is folded into the step of the  *)
(* call that precedes it.                                                  *)
(***************************************************************************)
EXTENDS Naturals, FiniteSets, Sequences, TLC

VARIABLES
    apiKey,      \* MANDRILL_API_KEY is set in the environment
    remote,      \* the remote account: template name -> number of templates of that name
    call,        \* per caller: the invocation in progress (operation, position, locals)
    faults,      \* remote/transport failures the environment has produced so far
    sequential,  \* scenario: one caller invoking operations one after another
    prev,        \* sequential scenario: the invocation completed last
    env,         \* the DEFAULT_* settings of the environment
    files,       \* the local files the scenarios look for
    msg,         \* the run of a scenario last completed, with the message it built
    registry     \* the module-level dict TEMPLATES of email_with_template.py

vars == <<apiKey, remote, call, faults, sequential, prev, env, files, msg, registry>>

\* The callers that may run operations at the same time (web requests, CLI runs).
Procs == {1, 2}

\* How many remote calls the environment may fail in one behaviour.
MaxFaults == 1

(***************************************************************************)
(* The static registry, email_with_template.py                             *)
(***************************************************************************)
TEMPLATES ==
    [n \in {"template1", "template2"} |->
        IF n = "template1"
        THEN [name |-> "template1", subject |-> "Hello {{fname}}!",
              mc_edit_region |-> "welcome_message"]
        ELSE [name |-> "template2", subject |-> "Greetings {{fname}}!",
              mc_edit_region |-> "goodbye_message"]]

\* Template identifiers a caller may pass: the registry's, and the one
\* create_template.py creates in the same account, which the registry lacks.
Names == DOMAIN TEMPLATES \cup {"hello-template"}

CliOps ==
    {"ensure_template_exists", "send_with_template",
     "send_template_to_multiple_recipients", "send_sms",
     "send_sms_with_error_handling"}
\* The web scenarios that build a message and call messages.send.
MessageSendOps ==
    {"send_single_email", "send_email_with_merge_tags",
     "send_email_with_attachments", "send_bulk_email"}
WebOps == {"createTemplate", "send_email_with_template"} \cup MessageSendOps
EnsureOps == {"ensure_template_exists", "createTemplate"}
TemplateSendOps ==
    {"send_with_template", "send_template_to_multiple_recipients",
     "send_email_with_template"}
TemplateOps == EnsureOps \cup TemplateSendOps
SmsOps == {"send_sms", "send_sms_with_error_handling"}
Ops == CliOps \cup WebOps

\* The scenario operations the web form dispatches to.
WebScenarioOps == MessageSendOps \cup {"send_email_with_template"}

\* The values of the form field Script_name the route knows, and two it does not.
ScriptNames == {"single", "mergeTags", "attachments", "templates", "allInOne"}

Scripts == ScriptNames \cup {"sms", ""}

\* A route whose last branch runs the single send.
script_op_fallthrough(script) ==
    CASE script = "mergeTags" -> "send_email_with_merge_tags"
      [] script = "attachments" -> "send_email_with_attachments"
      [] script = "templates" -> "send_email_with_template"
      [] script = "allInOne" -> "send_bulk_email"
      [] OTHER -> "send_single_email"

\* The if/elif chain of testEmailbasedOnScriptID.
script_op(script) ==
    CASE script = "single" -> "send_single_email"
      [] script = "mergeTags" -> "send_email_with_merge_tags"
      [] script = "attachments" -> "send_email_with_attachments"
      [] script = "templates" -> "send_email_with_template"
      [] script = "allInOne" -> "send_bulk_email"
      [] OTHER -> "invalid"

Idle ==
    [op |-> "none", script |-> "none", flash |-> "none",
     name |-> "none", pc |-> "idle", pre |-> FALSE,
     listOut |-> "none", exists |-> "none", ens |-> "none", rej |-> "none",
     sendOut |-> "none", sendErr |-> "none", shape |-> "none", ret |-> "none",
     out |-> [raised |-> FALSE, text |-> <<>>], log |-> <<>>,
     res |-> [success |-> FALSE, keys |-> {}, error |-> <<>>],
     listHeld |-> FALSE, calls |-> <<>>, sentName |-> "none", region |-> "none",
     nList |-> 0, nCreate |-> 0, nSend |-> 0, flt |-> 0]

(***************************************************************************)
(* The remote service and the transport                                    *)
(***************************************************************************)
\* What the environment may do to one SDK call: let it through, reject it with
\* an API error, or fail the transport (an exception that is no ApiClientError).
SdkFaults == IF faults < MaxFaults THEN {"none", "api_error", "exception"} ELSE {"none"}

\* The same for the SMS HTTP request: a non-200 answer, or one of the three
\* exception classes send_sms tells apart.
HttpFaults ==
    IF faults < MaxFaults
    THEN {"none", "http_error", "ssl", "timeout", "exception"}
    ELSE {"none"}

Response(kind, held, reason) == [kind |-> kind, held |-> held, reason |-> reason]

\* A call made with no API key reaches the service and is rejected by it.
NoKey(key, f) == IF key THEN f ELSE "api_error"

\* templates.list: the names the account holds.
templates_list(key, held, f) ==
    IF NoKey(key, f) = "none" THEN Response("ok", held, "none")
    ELSE IF NoKey(key, f) = "api_error"
         THEN Response("api_error", FALSE, IF key THEN "other" ELSE "invalid_key")
         ELSE Response("exception", FALSE, "transport")

\* templates.add: the service refuses a name it already holds.
templates_add(key, held, f) ==
    IF NoKey(key, f) = "none"
    THEN IF held THEN Response("api_error", TRUE, "duplicate")
                 ELSE Response("ok", TRUE, "none")
    ELSE IF NoKey(key, f) = "api_error"
         THEN Response("api_error", held, IF key THEN "other" ELSE "invalid_key")
         ELSE Response("exception", held, "transport")

\* messages.send_template: the service refuses a template name it does not hold.
messages_send_template(key, held, f) ==
    IF NoKey(key, f) = "none"
    THEN IF held THEN Response("ok", TRUE, "none")
                 ELSE Response("api_error", FALSE, "unknown_template")
    ELSE IF NoKey(key, f) = "api_error"
         THEN Response("api_error", held, IF key THEN "other" ELSE "invalid_key")
         ELSE Response("exception", held, "transport")

\* messages.send
messages_send(key, f) ==
    IF NoKey(key, f) = "none" THEN Response("ok", FALSE, "none")
    ELSE IF NoKey(key, f) = "api_error"
         THEN Response("api_error", FALSE, IF key THEN "other" ELSE "invalid_key")
         ELSE Response("exception", FALSE, "transport")

\* A create that takes the definition out of the registry.
TEMPLATES_after_add_pop(reg, n) == [m \in DOMAIN reg \ {n} |-> reg[m]]

\* The registry after `template = TEMPLATES[template_name]` and the building
\* of the templates.add payload from it: the entry is read, nothing is stored.
TEMPLATES_after_add(reg, n) == reg

\* The account after templates.add answered resp for name n.
remote_after_add(n, resp) ==
    IF resp.kind = "ok" THEN [remote EXCEPT ![n] = @ + 1] ELSE remote

Held(n) == n \in DOMAIN remote /\ remote[n] > 0

(***************************************************************************)
(* The code                                                                *)
(***************************************************************************)
\* get_mailchimp_client (CLI): raises ValueError without an API key.
get_mailchimp_client(key) == IF key THEN "client" ELSE "ValueError"

\* Mutant: the comparison with the requested name never matches.
cli_template_exists_never(resp) ==
    CASE resp.kind = "ok" -> "False"
      [] resp.kind = "api_error" -> "False"
      [] OTHER -> "raise"

\* template_exists (CLI): only ApiClientError is caught.
cli_template_exists(resp) ==
    CASE resp.kind = "ok" -> IF resp.held THEN "True" ELSE "False"
      [] resp.kind = "api_error" -> "False"
      [] OTHER -> "raise"

\* template_exists (web): ApiClientError and every other Exception are caught.
web_template_exists(resp) ==
    CASE resp.kind = "ok" -> IF resp.held THEN "True" ELSE "False"
      [] resp.kind = "api_error" -> "False"
      [] OTHER -> "False"

template_exists(op, resp) ==
    IF op \in CliOps THEN cli_template_exists(resp) ELSE web_template_exists(resp)

\* Mutant: the registry test is left out.
in_TEMPLATES_any(n) == TRUE

\* The registry test of ensure_template_exists / createTemplate.
in_TEMPLATES(n) == n \in DOMAIN registry

\* An ensure that goes on to the create call whatever the check answered.
ensure_branch_always_add(exists, n) ==
    CASE exists = "raise" -> "raised"
      [] ~in_TEMPLATES(n) -> "unknown"
      [] OTHER -> "add"

\* Mutant: no early return when the template exists.
ensure_branch_no_return(exists, n) ==
    CASE exists = "raise" -> "raised"
      [] ~in_TEMPLATES(n) -> IF exists = "True" THEN "exists" ELSE "unknown"
      [] OTHER -> "add"

\* ensure_template_exists / createTemplate, from the existence check to the
\* create call: "exists" and "unknown" return, "add" goes on to templates.add.
ensure_branch(exists, n) ==
    CASE exists = "raise" -> "raised"
      [] exists = "True" -> "exists"
      [] ~in_TEMPLATES(n) -> "unknown"
      [] OTHER -> "add"

\* Mutant: the rejection is printed and True is returned all the same.
cli_add_outcome_swallow(resp) ==
    CASE resp.kind = "ok" -> "created"
      [] resp.kind = "api_error" -> "created"
      [] OTHER -> "raised"

\* ensure_template_exists (CLI) after templates.add.
cli_add_outcome(resp) ==
    CASE resp.kind = "ok" -> "created"
      [] resp.kind = "api_error" -> "rejected"
      [] OTHER -> "raised"

\* createTemplate (web) after templates.add: the ApiClientError is printed.
web_add_outcome(resp) ==
    CASE resp.kind = "ok" -> "created"
      [] resp.kind = "api_error" -> "rejected"
      [] OTHER -> "raised"

add_outcome(op, resp) ==
    IF op \in CliOps THEN cli_add_outcome(resp) ELSE web_add_outcome(resp)

\* Mutant: the "return True" after templates.add is missing.
ensure_template_exists_ret_none(ens) ==
    CASE ens = "exists" -> "True"
      [] ens \in {"created", "unknown", "rejected"} -> "False"
      [] OTHER -> "raised"

\* What ensure_template_exists returns.
ensure_template_exists_ret(ens) ==
    CASE ens \in {"exists", "created"} -> "True"
      [] ens \in {"unknown", "rejected"} -> "False"
      [] OTHER -> "raised"

\* What createTemplate returns: None on every path that does not raise.
createTemplate_ret(ens) == IF ens = "raised" THEN "raised" ELSE "None"

\* A template send that does not read what ensure_template_exists returned.
send_with_template_next_unchecked(ens) ==
    IF ensure_template_exists_ret(ens) = "raised" THEN "raised" ELSE "send"

\* send_with_template (CLI) after ensure_template_exists.
send_with_template_next(ens) ==
    CASE ensure_template_exists_ret(ens) = "True" -> "send"
      [] ensure_template_exists_ret(ens) = "False" -> "None"
      [] OTHER -> "raised"

\* A scenario that stops when createTemplate did not find or create the template.
send_email_with_template_next_guarded(ens) ==
    CASE ens \in {"exists", "created"} -> "send"
      [] ens \in {"unknown", "rejected"} -> "None"
      [] OTHER -> "raised"

\* send_email_with_template (web) after createTemplate: its result is not read.
send_email_with_template_next(ens) ==
    IF createTemplate_ret(ens) = "raised" THEN "raised" ELSE "send"

\* send_with_template (CLI) after messages.send_template.
cli_send_ret(resp) ==
    CASE resp.kind = "ok" -> "result"
      [] resp.kind = "api_error" -> "None"
      [] OTHER -> "raised"

\* The web scenarios after the send call: status lines, or "Mailchimp error: ...".
web_send_ret(resp) ==
    CASE resp.kind = "ok" -> "status"
      [] resp.kind = "api_error" -> "Mailchimp error"
      [] OTHER -> "raised"

(***************************************************************************)
(* What messages.send may answer, and how the web scenarios render it.     *)
(* A string is the sequence of the pieces it is concatenated from.         *)
(***************************************************************************)
PyValue(type, items, len) == [type |-> type, items |-> items, len |-> len]

\* The shapes of a 2xx answer: per-recipient results, no result, a dict, a string.
Shapes == {"list1", "list2", "empty", "dict", "str"}

send_result(shape) ==
    CASE shape = "list1" ->
            PyValue("list", <<[email |-> "x@example.org", status |-> "sent",
                               id |-> "abc123"]>>, 1)
      [] shape = "list2" ->
            PyValue("list", <<[email |-> "x@example.org", status |-> "sent",
                               id |-> "abc123"],
                              [email |-> "y@example.org", status |-> "queued",
                               id |-> "def456"]>>, 2)
      [] shape = "empty" -> PyValue("list", <<>>, 0)
      [] shape = "dict" -> PyValue("dict", <<>>, 1)
      [] OTHER -> PyValue("str", <<>>, 6)

\* str(result) inside an f-string.
py_repr(shape) ==
    CASE shape = "empty" -> "[]"
      [] shape = "dict" -> "{'status': 'error'}"
      [] shape = "str" -> "queued"
      [] OTHER -> "[...]"

Text(raised, text) == [raised |-> raised, text |-> text]

RECURSIVE join_br(_)
\* '<br>'.join(lines)
join_br(lines) ==
    IF Len(lines) = 0 THEN <<>>
    ELSE IF Len(lines) = 1 THEN lines[1]
    ELSE lines[1] \o <<"<br>">> \o join_br(Tail(lines))

unexpected_result(shape) == <<"Unexpected result structure: ", py_repr(shape)>>

\* Mutant: every line carries the name of the scenario.
status_lines_prefixed(shape) ==
    LET r == send_result(shape) IN
    IF r.type = "list"
    THEN Text(FALSE, join_br([i \in 1..Len(r.items) |->
                 <<"status to : ", r.items[i].email, ": ", r.items[i].status>>]))
    ELSE Text(FALSE, unexpected_result(shape))

\* send_email_with_attachments, send_bulk_email, send_email_with_template:
\* one "<email>: <status>" line per result when the answer is a list.
status_lines(shape) ==
    LET r == send_result(shape) IN
    IF r.type = "list"
    THEN Text(FALSE, join_br([i \in 1..Len(r.items) |->
                 <<r.items[i].email, ": ", r.items[i].status>>]))
    ELSE Text(FALSE, unexpected_result(shape))

\* send_email_with_merge_tags: the same, each line behind a fixed prefix.
merge_tags_status_lines(shape) ==
    LET r == send_result(shape) IN
    IF r.type = "list"
    THEN Text(FALSE, join_br([i \in 1..Len(r.items) |->
                 <<"send_email_with_merge_tags to : ", r.items[i].email, ": ",
                   r.items[i].status>>]))
    ELSE Text(FALSE, unexpected_result(shape))

\* send_single_email: "if result and len(result) > 0" reads result[0], which
\* raises KeyError on a dict and TypeError on a string.
single_status_msg(shape) ==
    LET r == send_result(shape) IN
    IF r.len > 0
    THEN IF r.type = "list"
         THEN Text(FALSE, <<"Status: ", r.items[1].status, "<br>",
                            "Email to: ", r.items[1].email, "<br>",
                            "Message ID: ", r.items[1].id>>)
         ELSE Text(TRUE, <<>>)
    ELSE Text(FALSE, unexpected_result(shape))

\* Mutant: the explanation of the service is dropped from the diagnostic.
api_error_text_bare(reason) == <<"Mailchimp error: ", "ApiClientError">>

\* except ApiClientError: "Mailchimp error: <class> - <error.text>".
api_error_text(reason) == <<"Mailchimp error: ", "ApiClientError", " - ", reason>>

\* What a web scenario returns for the answer of its send call.
web_scenario_out(op, resp, shape) ==
    CASE resp.kind = "api_error" -> Text(FALSE, api_error_text(resp.reason))
      [] resp.kind = "exception" -> Text(TRUE, <<>>)
      [] op = "send_single_email" -> single_status_msg(shape)
      [] op = "send_email_with_merge_tags" -> merge_tags_status_lines(shape)
      [] OTHER -> status_lines(shape)

\* Mutant: a failed send is tried again.
after_send_retry(kind) == IF kind = "ok" \/ kind = "none" THEN "done" ELSE "send"

\* Where a scenario goes after its send call has answered: it returns.
after_send(kind) == "done"

\* The shapes the environment may give the answer resp of a web send call.
ShapesOf(op, resp) == IF op \in WebOps /\ resp.kind = "ok" THEN Shapes ELSE {"none"}

\* A template send that names the same region for every template.
template_content_region_fixed(op, n) == "welcome_message"

\* The 'name' of the template_content entry: send_with_template and
\* send_email_with_template choose it by the template name,
\* send_template_to_multiple_recipients always names welcome_message.
template_content_region(op, n) ==
    IF op = "send_template_to_multiple_recipients" THEN "welcome_message"
    ELSE IF n = "template1" THEN "welcome_message" ELSE "goodbye_message"

\* The invocation c of a web/CLI e-mail scenario once its send call answered.
SendDone(c, resp, shape) ==
    LET o == IF c.op \in WebOps THEN web_scenario_out(c.op, resp, shape)
                                ELSE Text(resp.kind = "exception", <<>>)
        r == IF c.op \in CliOps THEN cli_send_ret(resp) ELSE web_send_ret(resp)
    IN [c EXCEPT !.nSend = @ + 1, !.sendOut = resp.kind,
                 !.calls = Append(@, "send"),
                 !.sentName = c.name,
                 !.region = IF c.op \in TemplateSendOps
                            THEN template_content_region(c.op, c.name) ELSE "none",
                 !.sendErr = IF resp.kind = "api_error" THEN resp.reason ELSE "none",
                 !.shape = shape, !.out = o,
                 !.flt = IF resp.kind = "ok" THEN @ ELSE @ + 1,
                 !.pc = after_send(resp.kind),
                 !.ret = IF o.raised THEN "raised" ELSE r]

\* Mutant: a transport failure of the SMS request is not caught.
send_sms_ret_uncaught(f) ==
    IF f = "none" THEN "result" ELSE IF f = "http_error" THEN "None" ELSE "raised"

\* What send_sms prints first for the outcome f of requests.post: the 200 and
\* non-200 branches, and the three except clauses.
send_sms_log(f) ==
    CASE f = "none" -> <<"SMS sent successfully!">>
      [] f = "http_error" -> <<"SMS sending failed!", "HTTP Status: ">>
      [] f = "ssl" -> <<"SSL Certificate Error!", "TIP: SSL_VERIFY=false">>
      [] f = "timeout" -> <<"Request Timeout!">>
      [] OTHER -> <<"Error sending SMS!">>

\* send_sms after requests.post: the parsed body on 200, else None.
send_sms_ret(f) == IF f = "none" THEN "result" ELSE "None"

\* The JSON bodies a 200 answer of the SMS endpoint may carry: a list whose
\* first entry is sent, or rejected with or without a reject_reason, an
\* empty list, and a single object with status rejected.
SmsShapes == {"sent", "rejected", "rejected_no_reason", "empty", "dict_rejected"}

\* What send_sms hands back for such a body (response.json()).
sms_result(shape) ==
    [type |-> IF shape = "dict_rejected" THEN "dict" ELSE "list",
     len |-> IF shape = "empty" THEN 0 ELSE 1,
     status |-> CASE shape = "sent" -> "sent"
                  [] shape = "empty" -> "none"
                  [] OTHER -> "rejected",
     reject_reason |-> IF shape = "rejected" THEN "invalid_number" ELSE "none"]

\* The None of every failing path of send_sms.
sms_none == [type |-> "None", len |-> 0, status |-> "none", reject_reason |-> "none"]

\* The result field of an invocation that is no send_sms_with_error_handling.
NoRes == [success |-> FALSE, keys |-> {}, error |-> <<>>]

\* The body shapes the model tells apart: those of SmsShapes where the
\* result is read (send_sms_with_error_handling), one otherwise.
SmsShapesOf(op, f) ==
    IF op = "send_sms_with_error_handling" /\ f = "none" THEN SmsShapes ELSE {"none"}

\* A wrapper that reports every truthy result as a success.
send_sms_with_error_handling_ret_lenient(v) ==
    IF v.type # "None" /\ v.len > 0
    THEN [success |-> TRUE, keys |-> {"success", "data"}, error |-> <<>>]
    ELSE [success |-> FALSE, keys |-> {"success", "error"},
          error |-> <<"Failed to send SMS">>]

\* send_sms_with_error_handling, from `if result:` on.
send_sms_with_error_handling_ret(v) ==
    IF v.type # "None" /\ v.len > 0
    THEN IF v.type = "list" /\ v.len > 0 /\ v.status = "rejected"
         THEN [success |-> FALSE, keys |-> {"success", "error"},
               error |-> <<"Rejected: ", IF v.reject_reason = "none"
                                         THEN "Unknown reason" ELSE v.reject_reason>>]
         ELSE [success |-> TRUE, keys |-> {"success", "data"}, error |-> <<>>]
    ELSE [success |-> FALSE, keys |-> {"success", "error"},
          error |-> <<"Failed to send SMS">>]

\* The invocation c of an SMS operation once send_sms has returned the value
\* v (shown as r to a caller of send_sms itself).
SmsDone(c, r, v) ==
    IF c.op = "send_sms_with_error_handling"
    THEN [c EXCEPT !.ret = "dict", !.res = send_sms_with_error_handling_ret(v)]
    ELSE [c EXCEPT !.ret = r]

\* The invocation c once its ensure step ended with outcome e.
EnsureDone(c, e) ==
    LET d == [c EXCEPT !.ens = e] IN
    CASE c.op = "ensure_template_exists" ->
            [d EXCEPT !.pc = "done", !.ret = ensure_template_exists_ret(e)]
      [] c.op = "createTemplate" ->
            [d EXCEPT !.pc = "done", !.ret = createTemplate_ret(e)]
      [] c.op \in {"send_with_template", "send_template_to_multiple_recipients"} ->
            IF send_with_template_next(e) = "send"
            THEN [d EXCEPT !.pc = "send"]
            ELSE [d EXCEPT !.pc = "done", !.ret = send_with_template_next(e)]
      [] OTHER ->
            IF send_email_with_template_next(e) = "send"
            THEN [d EXCEPT !.pc = "send"]
            ELSE [d EXCEPT !.pc = "done", !.ret = send_email_with_template_next(e)]

(***************************************************************************)
(* The message payloads: configuration, local files, request form          *)
(***************************************************************************)
\* The settings config.py and the CLI scripts read from the environment.
EnvNames ==
    {"DEFAULT_FROM_EMAIL", "DEFAULT_FROM_NAME", "DEFAULT_TO_EMAIL", "DEFAULT_TO_NAME"}

\* The value a setting has when the environment defines it.
EnvValue ==
    [DEFAULT_FROM_EMAIL |-> "noreply@acme.test", DEFAULT_FROM_NAME |-> "Acme Sender",
     DEFAULT_TO_EMAIL |-> "ann@acme.test", DEFAULT_TO_NAME |-> "Ann Lee"]

\* An environment: each setting defined, or not ("None", what os.getenv yields).
Envs ==
    {e \in [EnvNames -> {"None"} \cup {EnvValue[n] : n \in EnvNames}] :
        \A n \in EnvNames : e[n] \in {"None", EnvValue[n]}}

\* os.getenv(name), as config.py reads the settings the web app uses.
os_getenv(e, name) == e[name]

\* os.getenv(name, default), as the CLI scripts read them.
os_getenv_default(e, name, default) == IF e[name] = "None" THEN default ELSE e[name]

\* The longest local file the model looks at, in bytes.
MaxFileLen == 3

Bytes == {0, 255}

ByteSeqs == UNION {[1..n -> Bytes] : n \in 0..MaxFileLen}

\* A path of the file system: no file, a file that cannot be opened for
\* reading, or a readable file with its content.
FileStates ==
    {[state |-> s, bytes |-> <<>>] : s \in {"absent", "unreadable"}}
    \cup {[state |-> "file", bytes |-> b] : b \in ByteSeqs}

FileNames == {"sample.pdf", "logo.png"}

\* open(path, 'rb').read()
open_read(fs, name) ==
    [error |-> CASE fs[name].state = "absent" -> "FileNotFoundError"
                 [] fs[name].state = "unreadable" -> "PermissionError"
                 [] OTHER -> "none",
     bytes |-> fs[name].bytes]

\* The fields the merge-tag form may carry, and a request's form: the fields
\* it has, with their values.
FormFields == {"firstName", "lastName", "companyName", "membershipLevel"}

FormValue ==
    [firstName |-> "Ann", lastName |-> "Lee", companyName |-> "Acme",
     membershipLevel |-> "Gold"]

Forms == {[k \in S |-> FormValue[k]] : S \in SUBSET FormFields}

\* A lookup that never reads the form.
form_get_ignored(form, key, default) == default

\* request.form.get(key, default)
form_get(form, key, default) == IF key \in DOMAIN form THEN form[key] ELSE default

(***************************************************************************)
(* base64.b64encode: characters are their index in the alphabet            *)
(* A-Z a-z 0-9 + /, and B64Pad is "=".                                     *)
(***************************************************************************)
B64Pad == 64

\* The last group, without its padding.
b64_tail_unpadded(bs) ==
    IF Len(bs) = 1
    THEN << bs[1] \div 4, (bs[1] % 4) * 16 >>
    ELSE << bs[1] \div 4, (bs[1] % 4) * 16 + bs[2] \div 16, (bs[2] % 16) * 4 >>

\* The last group of one or two bytes, padded to four characters.
b64_tail(bs) ==
    IF Len(bs) = 1
    THEN << bs[1] \div 4, (bs[1] % 4) * 16, B64Pad, B64Pad >>
    ELSE << bs[1] \div 4, (bs[1] % 4) * 16 + bs[2] \div 16, (bs[2] % 16) * 4, B64Pad >>

\* A group that loses the two low bits of its first byte.
b64_group_low(b1, b2, b3) ==
    << b1 \div 4, b2 \div 16, (b2 % 16) * 4 + b3 \div 64, b3 % 64 >>

\* A full group of three bytes: four characters of six bits each.
b64_group(b1, b2, b3) ==
    << b1 \div 4, (b1 % 4) * 16 + b2 \div 16, (b2 % 16) * 4 + b3 \div 64, b3 % 64 >>

RECURSIVE b64encode(_)
\* base64.b64encode(bs).decode('utf-8')
b64encode(bs) ==
    IF Len(bs) = 0 THEN <<>>
    ELSE IF Len(bs) < 3 THEN b64_tail(bs)
    ELSE b64_group(bs[1], bs[2], bs[3]) \o b64encode(SubSeq(bs, 4, Len(bs)))

(***************************************************************************)
(* The generated readme.txt: text_content.encode('utf-8')                  *)
(***************************************************************************)
\* datetime.utcnow().isoformat(): without the fraction when the microsecond
\* is zero, with six digits of it otherwise.
Clocks == {"second", "microsecond"}

isoformat(clock) ==
    IF clock = "second"
    THEN \* 2024-05-17T09:30:00
         <<
         50, 48, 50, 52, 45, 48, 53, 45, 49, 55, 84, 48, 57, 58, 51, 48,
         58, 48, 48 >>
    ELSE \* 2024-05-17T09:30:00.123456
         <<
         50, 48, 50, 52, 45, 48, 53, 45, 49, 55, 84, 48, 57, 58, 51, 48,
         58, 48, 48, 46, 49, 50, 51, 52, 53, 54 >>

\* 'This is a demo text file created by the Mandrill Use Case File.\n\n
\* Generated at: ' + isoformat, app.py
web_text_content(clock) ==
    <<
    84, 104, 105, 115, 32, 105, 115, 32, 97, 32, 100, 101, 109, 111, 32, 116,
    101, 120, 116, 32, 102, 105, 108, 101, 32, 99, 114, 101, 97, 116, 101, 100,
    32, 98, 121, 32, 116, 104, 101, 32, 77, 97, 110, 100, 114, 105, 108, 108,
    32, 85, 115, 101, 32, 67, 97, 115, 101, 32, 70, 105, 108, 101, 46, 10,
    10, 71, 101, 110, 101, 114, 97, 116, 101, 100, 32, 97, 116, 58, 32 >>
    \o isoformat(clock)

\* The f-string of email_with_attachments.py: '...Use Case.\n\nGenerated at: ',
\* isoformat, '\nThis file was created using Python.\n'
cli_text_content(clock) ==
    <<
    84, 104, 105, 115, 32, 105, 115, 32, 97, 32, 100, 101, 109, 111, 32, 116,
    101, 120, 116, 32, 102, 105, 108, 101, 32, 99, 114, 101, 97, 116, 101, 100,
    32, 98, 121, 32, 116, 104, 101, 32, 77, 97, 110, 100, 114, 105, 108, 108,
    32, 85, 115, 101, 32, 67, 97, 115, 101, 46, 10, 10, 71, 101, 110, 101,
    114, 97, 116, 101, 100, 32, 97, 116, 58, 32 >>
    \o isoformat(clock) \o
    <<
    10, 84, 104, 105, 115, 32, 102, 105, 108, 101, 32, 119, 97, 115, 32, 99,
    114, 101, 97, 116, 101, 100, 32, 117, 115, 105, 110, 103, 32, 80, 121, 116,
    104, 111, 110, 46, 10 >>

(***************************************************************************)
(* The message payloads the scenarios build                                *)
(***************************************************************************)
Recipient(email, name, type) == [email |-> email, name |-> name, type |-> type]

Attachment(type, name, content) == [type |-> type, name |-> name, content |-> content]

MergeVar(name, content) == [name |-> name, content |-> content]

\* The fields of a message the model keeps; a payload without 'attachments',
\* 'images' or merge variables has them empty here.
NoMessage ==
    [subject |-> "", html |-> <<>>, from_email |-> "None", from_name |-> "None",
     to |-> <<>>, reply_to |-> "None", global_merge_vars |-> <<>>,
     merge_vars |-> <<>>, attachments |-> <<>>, images |-> <<>>]

\* What the code before messages.send yields: the message, or an exception.
Built(raised, message) == [raised |-> raised, message |-> message]

\* A recipient list that also copies the sender.
web_to_with_cc(e) ==
    << Recipient(os_getenv(e, "DEFAULT_TO_EMAIL"), os_getenv(e, "DEFAULT_TO_NAME"), "to"),
       Recipient(os_getenv(e, "DEFAULT_FROM_EMAIL"), os_getenv(e, "DEFAULT_FROM_NAME"), "cc") >>

\* 'to' of the web scenarios: the one recipient of config.py.
web_to(e) ==
    << Recipient(os_getenv(e, "DEFAULT_TO_EMAIL"), os_getenv(e, "DEFAULT_TO_NAME"), "to") >>

\* 'to' of the CLI scripts: the same settings, with their fallbacks.
cli_to(e) ==
    << Recipient(os_getenv_default(e, "DEFAULT_TO_EMAIL", "recipient@example.org"),
                 os_getenv_default(e, "DEFAULT_TO_NAME", "Test Recipient"), "to") >>

\* app.py send_single_email
send_single_email_message(e) ==
    Built(FALSE,
          [NoMessage EXCEPT
             !.subject = "Hello world",
             !.html = <<"<p>", "Hello HTML world!",
                        " from Mailchimp transactional API Demo", "</p>">>,
             !.from_email = os_getenv(e, "DEFAULT_FROM_EMAIL"),
             !.from_name = os_getenv(e, "DEFAULT_FROM_NAME"),
             !.to = web_to(e),
             !.reply_to = os_getenv(e, "DEFAULT_FROM_EMAIL")])

\* email_with_single_recipient.py send_email
send_email_message(e) ==
    Built(FALSE,
          [NoMessage EXCEPT
             !.subject = "Hello world",
             !.html = <<"<p>", "Hello HTML world!", "</p>">>,
             !.from_email = os_getenv_default(e, "DEFAULT_FROM_EMAIL", "test@example.org"),
             !.from_name = os_getenv_default(e, "DEFAULT_FROM_NAME", "Test Sender"),
             !.to = cli_to(e),
             !.reply_to = os_getenv_default(e, "DEFAULT_FROM_EMAIL", "test@example.org")])

\* app.py send_email_with_merge_tags
send_email_with_merge_tags_message(e, form) ==
    Built(FALSE,
          [NoMessage EXCEPT
             !.subject = "Welcome to {{company_name}}, {{fname}}!",
             !.html = <<"<h1>Welcome {{fname}}!</h1>", "<p>Hi {{fname}} {{lname}},</p>",
                        "<p>Thanks for joining the {{company_name}}! Your account is now active.</p>",
                        "<p>Your membership level: {{membership_level}}</p>",
                        "<p>Best regards,<br>The {{company_name}} Team</p>">>,
             !.from_email = os_getenv(e, "DEFAULT_FROM_EMAIL"),
             !.from_name = os_getenv(e, "DEFAULT_FROM_NAME"),
             !.to = web_to(e),
             !.reply_to = os_getenv(e, "DEFAULT_FROM_EMAIL"),
             !.global_merge_vars =
                 << MergeVar("company_name",
                             form_get(form, "companyName", "Intuit Developer Program")),
                    MergeVar("membership_level",
                             form_get(form, "membershipLevel", "Premium")) >>,
             !.merge_vars =
                 << [rcpt |-> os_getenv(e, "DEFAULT_TO_EMAIL"),
                     vars |-> << MergeVar("fname", form_get(form, "firstName", "John")),
                                 MergeVar("lname", form_get(form, "lastName", "Smith")) >>] >>])

\* os.path.exists that answers yes for every path.
os_path_exists_always(fs, name) == TRUE

\* os.path.exists(path)
os_path_exists(fs, name) == fs[name].state # "absent"

\* app.py: `if os.path.exists(path): with open(path, 'rb') as f: ...b64encode`;
\* content stays '' when the file is missing.
web_read_if_exists(fs, name) ==
    IF os_path_exists(fs, name)
    THEN [error |-> open_read(fs, name).error,
          content |-> b64encode(open_read(fs, name).bytes)]
    ELSE [error |-> "none", content |-> <<>>]

\* read_file_as_base64 of the CLI scripts: None for a file that is not found.
read_file_as_base64(fs, name) ==
    IF open_read(fs, name).error = "FileNotFoundError"
    THEN [error |-> "none", none |-> TRUE, content |-> <<>>]
    ELSE [error |-> open_read(fs, name).error, none |-> FALSE,
          content |-> b64encode(open_read(fs, name).bytes)]

\* The CLI scripts: `if os.path.exists(path): pdf_content = read_file_as_base64`.
cli_read_if_exists(fs, name) ==
    IF os_path_exists(fs, name)
    THEN read_file_as_base64(fs, name)
    ELSE [error |-> "none", none |-> TRUE, content |-> <<>>]

pdf_attachment(content) == Attachment("application/pdf", "sample.pdf", content)

readme_attachment(text) == Attachment("text/plain", "readme.txt", b64encode(text))

\* app.py send_email_with_attachments: sample.pdf when its content is not
\* empty, then readme.txt.
send_email_with_attachments_message(e, fs, clock) ==
    LET pdf == web_read_if_exists(fs, "sample.pdf") IN
    IF pdf.error # "none" THEN Built(TRUE, NoMessage)
    ELSE Built(FALSE,
          [NoMessage EXCEPT
             !.subject = "Documents Attached",
             !.html = <<"<h1>Your Documents</h1>", "<p>Please find the attached files.</p>">>,
             !.from_email = os_getenv(e, "DEFAULT_FROM_EMAIL"),
             !.from_name = os_getenv(e, "DEFAULT_FROM_NAME"),
             !.to = web_to(e),
             !.attachments =
                 (IF pdf.content # <<>> THEN <<pdf_attachment(pdf.content)>> ELSE <<>>)
                 \o <<readme_attachment(web_text_content(clock))>>])

\* app.py send_bulk_email: sample.pdf when the file exists, then readme.txt;
\* logo.png as an inline image when the file exists.
send_bulk_email_message(e, fs, clock) ==
    LET pdf == web_read_if_exists(fs, "sample.pdf")
        logo == web_read_if_exists(fs, "logo.png") IN
    IF pdf.error # "none" \/ logo.error # "none" THEN Built(TRUE, NoMessage)
    ELSE Built(FALSE,
          [NoMessage EXCEPT
             !.subject = "Hello {{fname}} - Mandrill Features Demo",
             !.html = <<"<h1>Hello {{fname}}!</h1>",
                        "<p>This email demonstrates multiple Transactional API features.</p>",
                        "<p>Company: {{company_name}}</p>", "<p>Account: {{account_id}}</p>">>,
             !.from_email = os_getenv(e, "DEFAULT_FROM_EMAIL"),
             !.from_name = os_getenv(e, "DEFAULT_FROM_NAME"),
             !.to = web_to(e),
             !.reply_to = os_getenv(e, "DEFAULT_FROM_EMAIL"),
             !.global_merge_vars = << MergeVar("company_name", "Intuit Developer Program") >>,
             !.merge_vars =
                 << [rcpt |-> os_getenv(e, "DEFAULT_TO_EMAIL"),
                     vars |-> << MergeVar("fname", "John"),
                                 MergeVar("account_id", "ACC-001") >>] >>,
             !.attachments =
                 (IF os_path_exists(fs, "sample.pdf")
                  THEN <<pdf_attachment(pdf.content)>> ELSE <<>>)
                 \o <<readme_attachment(web_text_content(clock))>>,
             !.images =
                 IF os_path_exists(fs, "logo.png")
                 THEN <<Attachment("image/png", "logo.png", logo.content)>> ELSE <<>>])

\* email_with_attachments.py send_with_attachments
send_with_attachments_message(e, fs, clock) ==
    LET pdf == cli_read_if_exists(fs, "sample.pdf") IN
    IF pdf.error # "none" THEN Built(TRUE, NoMessage)
    ELSE Built(FALSE,
          [NoMessage EXCEPT
             !.subject = "Documents Attached",
             !.html = <<"<h1>Your Documents</h1>",
                        "<p>Please find the attached files for your review.</p>",
                        "<ul><li>Sample PDF document</li><li>Readme text file</li></ul>">>,
             !.from_email = os_getenv_default(e, "DEFAULT_FROM_EMAIL", "test@example.org"),
             !.from_name = os_getenv_default(e, "DEFAULT_FROM_NAME", "Test Sender"),
             !.to = cli_to(e),
             !.attachments =
                 (IF ~pdf.none /\ pdf.content # <<>>
                  THEN <<pdf_attachment(pdf.content)>> ELSE <<>>)
                 \o <<readme_attachment(cli_text_content(clock))>>])

\* kitchen_sink_email.py send_kitchen_sink: sample.pdf only, no inline image.
send_kitchen_sink_message(e, fs) ==
    LET pdf == cli_read_if_exists(fs, "sample.pdf") IN
    IF pdf.error # "none" THEN Built(TRUE, NoMessage)
    ELSE Built(FALSE,
          [NoMessage EXCEPT
             !.subject = "Hello {{fname}} - Mandrill Features Demo",
             !.html = <<"<h1>Hello {{fname}}!</h1>",
                        "<p>This email demonstrates multiple Transactional API features.</p>",
                        "<p><strong>Company:</strong> {{company_name}}</p>",
                        "<p><strong>Account:</strong> {{account_id}}</p>">>,
             !.from_email = os_getenv_default(e, "DEFAULT_FROM_EMAIL", "test@example.org"),
             !.from_name = os_getenv_default(e, "DEFAULT_FROM_NAME", "Test Sender"),
             !.to = cli_to(e),
             !.reply_to = os_getenv_default(e, "DEFAULT_FROM_EMAIL", "test@example.org"),
             !.global_merge_vars = << MergeVar("company_name", "Intuit Developer Program") >>,
             !.merge_vars =
                 << [rcpt |-> os_getenv_default(e, "DEFAULT_TO_EMAIL", "recipient@example.org"),
                     vars |-> << MergeVar("fname", "John"),
                                 MergeVar("account_id", "ACC-001") >>] >>,
             !.attachments =
                 IF ~pdf.none /\ pdf.content # <<>>
                 THEN <<pdf_attachment(pdf.content)>> ELSE <<>>])

\* No scenario has built a payload yet.
NoMsg ==
    [op |-> "none", form |-> <<>>, clock |-> "none", raised |-> FALSE,
     sent |-> FALSE, resp |-> "none", message |-> NoMessage]

\* One run of a scenario: the payload is built and, unless building raised,
\* handed to messages.send, which answers.
Handled(op, form, clock, built, key) ==
    [op |-> op, form |-> form, clock |-> clock, raised |-> built.raised,
     sent |-> ~built.raised,
     resp |-> IF built.raised THEN "none" ELSE messages_send(key, "none").kind,
     message |-> built.message]

(***************************************************************************)
(* Actions                                                                 *)
(***************************************************************************)
Init ==
    /\ apiKey \in BOOLEAN
    /\ remote \in [Names -> {0, 1}]
    /\ call = [p \in Procs |-> Idle]
    /\ faults = 0
    /\ sequential \in BOOLEAN
    /\ prev = Idle
    /\ env = EnvValue
    /\ files = [n \in FileNames |-> [state |-> "absent", bytes |-> <<>>]]
    /\ msg = NoMsg
    /\ registry = TEMPLATES

\* A caller starts operation o (on template n, for the template operations);
\* the web scenarios are started by the route below.
Invoke(p, o, n) ==
    /\ call[p].pc = "idle"
    /\ o \notin WebScenarioOps
    /\ sequential => p = 1
    /\ IF o \in TemplateOps THEN n \in Names ELSE n = "none"
    /\ call' = [call EXCEPT ![p] =
                  [Idle EXCEPT !.op = o, !.name = n, !.pre = Held(n),
                               !.pc = IF o \in TemplateOps THEN "list" ELSE "send"]]
    /\ UNCHANGED <<apiKey, remote, faults, sequential, prev, env, files, msg, registry>>

\* POST /testEmailbasedOnScriptID with Script_name = script (and, for the
\* template scenario, template_name = n): the scenario of that name starts, or
\* the request ends with a flashed error and a redirect to the index page.
testEmailbasedOnScriptID(p, script, n) ==
    /\ call[p].pc = "idle"
    /\ sequential => p = 1
    /\ IF script_op(script) \in TemplateOps THEN n \in Names ELSE n = "none"
    /\ call' = [call EXCEPT ![p] =
                  IF script_op(script) = "invalid"
                  THEN [Idle EXCEPT !.op = "testEmailbasedOnScriptID",
                                    !.script = script, !.pc = "done",
                                    !.flash = "Invalid script selected. Please try again.",
                                    !.ret = "redirect index"]
                  ELSE [Idle EXCEPT !.op = script_op(script), !.script = script,
                                    !.name = n, !.pre = Held(n),
                                    !.pc = IF script_op(script) \in TemplateOps
                                           THEN "list" ELSE "send"]]
    /\ UNCHANGED <<apiKey, remote, faults, sequential, prev, env, files, msg, registry>>

\* template_exists and the code up to the create call.
ListTemplates(p) ==
    LET c == call[p] IN
    /\ c.pc = "list"
    /\ IF c.op \in CliOps /\ get_mailchimp_client(apiKey) = "ValueError"
       THEN /\ call' = [call EXCEPT ![p] =
                          EnsureDone([c EXCEPT !.listOut = "no_client",
                                               !.exists = "raise"], "raised")]
            /\ UNCHANGED faults
       ELSE \E f \in SdkFaults :
              LET resp == templates_list(apiKey, Held(c.name), f)
                  ex == template_exists(c.op, resp)
                  br == ensure_branch(ex, c.name)
                  d == [c EXCEPT !.listOut = resp.kind, !.exists = ex,
                                 !.listHeld = resp.held,
                                 !.calls = Append(@, "list"),
                                 !.nList = @ + 1,
                                 !.flt = IF resp.kind = "ok" THEN @ ELSE @ + 1]
              IN /\ call' = [call EXCEPT ![p] =
                               IF br = "add" THEN [d EXCEPT !.pc = "add"]
                                             ELSE EnsureDone(d, br)]
                 /\ faults' = IF f = "none" THEN faults ELSE faults + 1
    /\ UNCHANGED <<apiKey, remote, sequential, prev, env, files, msg, registry>>

\* templates.add and the code after it.
AddTemplate(p) ==
    LET c == call[p] IN
    /\ c.pc = "add"
    /\ \E f \in SdkFaults :
         LET resp == templates_add(apiKey, Held(c.name), f)
             d == [c EXCEPT !.nCreate = @ + 1,
                            !.calls = Append(@, "add"),
                            !.rej = IF resp.kind = "api_error" THEN resp.reason ELSE "none",
                            !.flt = IF resp.kind = "ok" \/ resp.reason = "duplicate"
                                    THEN @ ELSE @ + 1]
         IN /\ call' = [call EXCEPT ![p] = EnsureDone(d, add_outcome(c.op, resp))]
            /\ remote' = remote_after_add(c.name, resp)
            /\ faults' = IF f = "none" THEN faults ELSE faults + 1
    /\ registry' = TEMPLATES_after_add(registry, call[p].name)
    /\ UNCHANGED <<apiKey, sequential, prev, env, files, msg>>

\* messages.send_template of the two template scenarios.
SendTemplate(p) ==
    LET c == call[p] IN
    /\ c.pc = "send"
    /\ c.op \in TemplateSendOps
    /\ \E f \in SdkFaults :
         LET resp == messages_send_template(apiKey, Held(c.name), f) IN
         /\ \E sh \in ShapesOf(c.op, resp) :
                call' = [call EXCEPT ![p] = SendDone(c, resp, sh)]
         /\ faults' = IF f = "none" THEN faults ELSE faults + 1
    /\ UNCHANGED <<apiKey, remote, sequential, prev, env, files, msg, registry>>

\* send_single_email, send_email_with_merge_tags, send_email_with_attachments,
\* send_bulk_email (web): messages.send.
SendMessage(p) ==
    LET c == call[p] IN
    /\ c.pc = "send"
    /\ c.op \in MessageSendOps
    /\ \E f \in SdkFaults :
         LET resp == messages_send(apiKey, f) IN
         /\ \E sh \in ShapesOf(c.op, resp) :
                call' = [call EXCEPT ![p] = SendDone(c, resp, sh)]
         /\ faults' = IF f = "none" THEN faults ELSE faults + 1
    /\ UNCHANGED <<apiKey, remote, sequential, prev, env, files, msg, registry>>

\* send_sms, alone or under send_sms_with_error_handling: None without an
\* API key, else one requests.post.
SendSms(p) ==
    LET c == call[p] IN
    /\ c.pc = "send"
    /\ c.op \in SmsOps
    /\ IF ~apiKey
       THEN /\ call' = [call EXCEPT ![p] =
                          SmsDone([c EXCEPT !.pc = "done"], "None", sms_none)]
            /\ UNCHANGED faults
       ELSE \E f \in HttpFaults :
              /\ \E sh \in SmsShapesOf(c.op, f) :
                     call' = [call EXCEPT ![p] =
                                SmsDone([c EXCEPT !.nSend = @ + 1,
                                                  !.sendOut = IF f = "none" THEN "ok" ELSE f,
                                                  !.shape = sh,
                                                  !.flt = IF f = "none" THEN @ ELSE @ + 1,
                                                  !.log = send_sms_log(f),
                                                  !.pc = after_send(f)],
                                        send_sms_ret(f),
                                        IF send_sms_ret(f) = "None" THEN sms_none
                                        ELSE sms_result(sh))]
              /\ faults' = IF f = "none" THEN faults ELSE faults + 1
    /\ UNCHANGED <<apiKey, remote, sequential, prev, env, files, msg, registry>>

\* The operation hands its result to its caller.
Return(p) ==
    /\ call[p].pc = "done"
    /\ call' = [call EXCEPT ![p] = Idle]
    /\ prev' = IF sequential THEN call[p] ELSE prev
    /\ UNCHANGED <<apiKey, remote, faults, sequential, env, files, msg, registry>>

Next ==
    \/ \E p \in Procs, o \in Ops, n \in Names \cup {"none"} : Invoke(p, o, n)
    \/ \E p \in Procs, script \in Scripts, n \in Names \cup {"none"} :
           testEmailbasedOnScriptID(p, script, n)
    \/ \E p \in Procs : ListTemplates(p)
    \/ \E p \in Procs : AddTemplate(p)
    \/ \E p \in Procs : SendTemplate(p)
    \/ \E p \in Procs : SendMessage(p)
    \/ \E p \in Procs : SendSms(p)
    \/ \E p \in Procs : Return(p)

Spec == Init /\ [][Next]_vars

(***************************************************************************)
(* The scenarios as payload builders: the configuration and the local      *)
(* files are whatever the deployment has, and each behaviour is one run of *)
(* a scenario, from the building of its message to the answer of           *)
(* messages.send.                                                          *)
(***************************************************************************)
mainvars == <<apiKey, remote, call, faults, sequential, prev, registry>>

InitBuild ==
    /\ apiKey \in BOOLEAN
    /\ remote = [n \in Names |-> 0]
    /\ call = [p \in Procs |-> Idle]
    /\ faults = 0
    /\ sequential = FALSE
    /\ prev = Idle
    /\ env \in Envs
    /\ files \in [FileNames -> FileStates]
    /\ msg = NoMsg
    /\ registry = TEMPLATES

SendSingleEmail ==
    /\ msg = NoMsg
    /\ msg' = Handled("send_single_email", <<>>, "none",
                      send_single_email_message(env), apiKey)
    /\ UNCHANGED <<mainvars, env, files>>

SendEmailWithMergeTags ==
    /\ msg = NoMsg
    /\ \E form \in Forms :
           msg' = Handled("send_email_with_merge_tags", form, "none",
                          send_email_with_merge_tags_message(env, form), apiKey)
    /\ UNCHANGED <<mainvars, env, files>>

SendEmailWithAttachments ==
    /\ msg = NoMsg
    /\ \E clock \in Clocks :
           msg' = Handled("send_email_with_attachments", <<>>, clock,
                          send_email_with_attachments_message(env, files, clock), apiKey)
    /\ UNCHANGED <<mainvars, env, files>>

SendBulkEmail ==
    /\ msg = NoMsg
    /\ \E clock \in Clocks :
           msg' = Handled("send_bulk_email", <<>>, clock,
                          send_bulk_email_message(env, files, clock), apiKey)
    /\ UNCHANGED <<mainvars, env, files>>

CliSendEmail ==
    /\ msg = NoMsg
    /\ msg' = Handled("send_email", <<>>, "none", send_email_message(env), apiKey)
    /\ UNCHANGED <<mainvars, env, files>>

CliSendWithAttachments ==
    /\ msg = NoMsg
    /\ \E clock \in Clocks :
           msg' = Handled("send_with_attachments", <<>>, clock,
                          send_with_attachments_message(env, files, clock), apiKey)
    /\ UNCHANGED <<mainvars, env, files>>

CliSendKitchenSink ==
    /\ msg = NoMsg
    /\ msg' = Handled("send_kitchen_sink", <<>>, "none",
                      send_kitchen_sink_message(env, files), apiKey)
    /\ UNCHANGED <<mainvars, env, files>>

NextBuild ==
    \/ SendSingleEmail
    \/ SendEmailWithMergeTags
    \/ SendEmailWithAttachments
    \/ SendBulkEmail
    \/ CliSendEmail
    \/ CliSendWithAttachments
    \/ CliSendKitchenSink

SpecBuild == InitBuild /\ [][NextBuild]_vars

(***************************************************************************)
(* read_file_as_base64 on its own: the CLI scripts that use it, run on a   *)
(* readable sample.pdf of any content.                                     *)
(***************************************************************************)
ReadBytes == {0, 1, 77, 128, 254, 255}

ReadByteSeqs == UNION {[1..n -> ReadBytes] : n \in 0..MaxFileLen}

InitRead ==
    /\ apiKey = TRUE
    /\ remote = [n \in Names |-> 0]
    /\ call = [p \in Procs |-> Idle]
    /\ faults = 0
    /\ sequential = FALSE
    /\ prev = Idle
    /\ env = EnvValue
    /\ \E b \in ReadByteSeqs :
           files = [n \in FileNames |->
                      IF n = "sample.pdf" THEN [state |-> "file", bytes |-> b]
                                          ELSE [state |-> "absent", bytes |-> <<>>]]
    /\ msg = NoMsg
    /\ registry = TEMPLATES

NextRead ==
    \/ CliSendWithAttachments
    \/ CliSendKitchenSink

SpecRead == InitRead /\ [][NextRead]_vars

(***************************************************************************)
(* Vocabulary of the properties                                            *)
(***************************************************************************)
InRegistry(n) == n \in DOMAIN TEMPLATES

\* The ensure operation reported success: ensure_template_exists returned
\* True; createTemplate, which returns None on every path, flashed "already
\* exists" or "Template created".
EnsureSucceeded(c) ==
    /\ c.ens \in {"exists", "created"}
    /\ c.ret = IF c.op = "ensure_template_exists" THEN "True" ELSE "None"

\* A finished stand-alone ensure invocation.
EnsureReturned(c) == c.pc = "done" /\ c.op \in EnsureOps

\* No call of the invocation was failed by the service or the transport (a
\* duplicate rejection is the service's regular answer, not a failure).
NoFailure(c) == apiKey /\ c.flt = 0

SendOps == TemplateSendOps \cup MessageSendOps \cup {"send_sms"}

\* C1: for a registry identifier absent from the remote account, two ensure
\* calls in sequence, none of whose remote calls fails, issue exactly one
\* templates.add in total and both report success.
C1_EnsureTwiceCreatesOnce ==
    \A p \in Procs :
        ( /\ sequential
          /\ EnsureReturned(call[p]) /\ EnsureReturned(prev)
          /\ prev.name = call[p].name /\ InRegistry(prev.name)
          /\ ~prev.pre
          /\ NoFailure(prev) /\ NoFailure(call[p]) )
        => /\ EnsureSucceeded(prev) /\ EnsureSucceeded(call[p])
           /\ prev.nCreate + call[p].nCreate = 1

C1_Witness ==
    /\ sequential /\ apiKey
    /\ EnsureReturned(prev) /\ prev.name = "template1" /\ ~prev.pre
    /\ prev.ens = "created" /\ prev.flt = 0
    /\ EnsureReturned(call[1]) /\ call[1].name = "template1"
    /\ call[1].ens = "exists" /\ call[1].flt = 0

\* C2 as stated: for an identifier absent from the registry the ensure
\* operation fails and issues neither templates.list nor templates.add.
C2_UnknownNoNetworkCall ==
    \A p \in Procs :
        (EnsureReturned(call[p]) /\ ~InRegistry(call[p].name))
        => /\ ~EnsureSucceeded(call[p])
           /\ call[p].nList = 0 /\ call[p].nCreate = 0

\* C2 amended: for an identifier absent from the registry the ensure step
\* never issues templates.add; the existence check comes first and issues
\* templates.list once (the CLI without an API key raises before it), and
\* the operation fails unless that check reports the template present.
C2_UnknownNoCreate ==
    \A p \in Procs :
        (call[p].op \in TemplateOps /\ ~InRegistry(call[p].name))
        => /\ call[p].nCreate = 0 /\ call[p].pc # "add"
           /\ EnsureReturned(call[p]) =>
                /\ call[p].nList = IF call[p].op \in CliOps /\ ~apiKey THEN 0 ELSE 1
                /\ EnsureSucceeded(call[p]) <=> call[p].exists = "True"

C2_Witness ==
    \E p \in Procs :
        /\ EnsureReturned(call[p]) /\ call[p].name = "hello-template"
        /\ call[p].nList = 1 /\ call[p].ens = "unknown"

\* C3: two callers ensuring the same registry identifier at the same time,
\* with no remote call failing, never both report failure, and the account
\* never holds two templates of one name.
C3_ConcurrentEnsure ==
    /\ \A n \in Names : remote[n] <= 1
    /\ \A p, q \in Procs :
        ( /\ p # q
          /\ EnsureReturned(call[p]) /\ EnsureReturned(call[q])
          /\ call[p].name = call[q].name /\ InRegistry(call[p].name)
          /\ NoFailure(call[p]) /\ NoFailure(call[q]) )
        => (EnsureSucceeded(call[p]) \/ EnsureSucceeded(call[q]))

\* Both callers saw the template absent and both issued templates.add.
C3_Witness ==
    /\ EnsureReturned(call[1]) /\ EnsureReturned(call[2])
    /\ call[1].name = call[2].name /\ InRegistry(call[1].name)
    /\ ~call[1].pre /\ ~call[2].pre
    /\ call[1].nCreate = 1 /\ call[2].nCreate = 1
    /\ call[1].ens = "created" /\ call[2].rej = "duplicate"

\* C4 as stated: a rejected templates.add makes the ensure operation report
\* success when the reason is a duplicate name, and failure otherwise.
C4_DuplicateIsSuccess ==
    \A p \in Procs :
        (EnsureReturned(call[p]) /\ call[p].rej # "none")
        => (EnsureSucceeded(call[p]) <=> call[p].rej = "duplicate")

\* C5: when the ensure operation reports success, the account holds a
\* template of that name.
C5_SuccessImpliesRemote ==
    \A p \in Procs :
        /\ (EnsureReturned(call[p]) /\ EnsureSucceeded(call[p])) => Held(call[p].name)
        /\ (call[p].op = "send_with_template" /\ call[p].pc = "send") => Held(call[p].name)

C5_Witness ==
    \E p \in Procs :
        /\ EnsureReturned(call[p]) /\ EnsureSucceeded(call[p])
        /\ call[p].ens = "created" /\ ~call[p].pre /\ Held(call[p].name)

\* C6 as stated: whenever templates.list fails, with an API error or with any
\* other failure, template_exists returns False and does not raise.
C6_ExistsFalseOnFailure ==
    \A p \in Procs :
        call[p].listOut \in {"api_error", "exception"} => call[p].exists = "False"

\* C7 as stated: when the existence check meets a transport failure for a
\* registry identifier, the ensure step goes on to templates.add.
C7_FailOpenOnTransport ==
    \A p \in Procs :
        (call[p].listOut = "exception" /\ InRegistry(call[p].name))
        => (call[p].pc = "add" \/ call[p].nCreate = 1)

\* C8: when the existence check reports the template present, the ensure
\* operation issues no templates.add and reports success.
C8_ExistsNoCreate ==
    \A p \in Procs :
        call[p].exists = "True"
        => /\ call[p].nCreate = 0 /\ call[p].pc # "add"
           /\ call[p].ens = "exists"
           /\ EnsureReturned(call[p]) => EnsureSucceeded(call[p])

C8_Witness ==
    \E p \in Procs :
        /\ EnsureReturned(call[p]) /\ call[p].exists = "True"
        /\ call[p].pre /\ call[p].nList = 1 /\ call[p].nCreate = 0
        /\ remote[call[p].name] = 1

\* C9 as stated: messages.send_template is only issued for an identifier of
\* the registry.
C9_SendOnlyRegistered ==
    \A p \in Procs :
        (call[p].op \in TemplateSendOps /\ call[p].nSend > 0) => InRegistry(call[p].name)

WebReturned(c) == c.pc = "done" /\ c.op \in WebScenarioOps

\* "<address>: <status>" lines for the one- and two-result answers.
PlainLines(shape) ==
    CASE shape = "list1" -> <<"x@example.org", ": ", "sent">>
      [] shape = "list2" -> <<"x@example.org", ": ", "sent", "<br>",
                              "y@example.org", ": ", "queued">>
      [] OTHER -> <<>>

\* C11 as stated: every web scenario renders a list of results as one
\* "<address>: <status>" line per result.
C11_OneLinePerResult ==
    \A p \in Procs :
        (WebReturned(call[p]) /\ call[p].shape \in {"list1", "list2"})
        => /\ ~call[p].out.raised
           /\ call[p].out.text = PlainLines(call[p].shape)

\* C11 amended: send_email_with_attachments, send_bulk_email and
\* send_email_with_template render a list of results as one
\* "<address>: <status>" line per result, joined by "<br>";
\* send_email_with_merge_tags puts "send_email_with_merge_tags to : " before
\* each line; send_single_email renders the first result only, as
\* "Status: <status><br>Email to: <address><br>Message ID: <_id>".
C11_StatusRendering ==
    \A p \in Procs :
        LET c == call[p] IN
        (WebReturned(c) /\ c.shape \in {"list1", "list2", "empty"})
        => /\ ~c.out.raised
           /\ c.op \in {"send_email_with_attachments", "send_bulk_email",
                        "send_email_with_template"}
                => c.out.text = PlainLines(c.shape)
           /\ c.op = "send_email_with_merge_tags"
                => c.out.text =
                     CASE c.shape = "list1" ->
                            <<"send_email_with_merge_tags to : ", "x@example.org",
                              ": ", "sent">>
                       [] c.shape = "list2" ->
                            <<"send_email_with_merge_tags to : ", "x@example.org",
                              ": ", "sent", "<br>",
                              "send_email_with_merge_tags to : ", "y@example.org",
                              ": ", "queued">>
                       [] OTHER -> <<>>
           /\ (c.op = "send_single_email" /\ c.shape # "empty")
                => c.out.text = <<"Status: ", "sent", "<br>",
                                  "Email to: ", "x@example.org", "<br>",
                                  "Message ID: ", "abc123">>

C11_Witness ==
    \E p \in Procs :
        /\ WebReturned(call[p]) /\ call[p].op = "send_email_with_attachments"
        /\ call[p].shape = "list1"
        /\ call[p].out.text = <<"x@example.org", ": ", "sent">>

\* C12 as stated: an answer that is no list of results (a dict, an empty list,
\* a string) makes every web scenario return "Unexpected result structure..."
\* without raising.
C12_UnexpectedShape ==
    \A p \in Procs :
        (WebReturned(call[p]) /\ call[p].shape \in {"dict", "empty", "str"})
        => /\ ~call[p].out.raised
           /\ Len(call[p].out.text) > 0
           /\ call[p].out.text[1] = "Unexpected result structure: "

InText(piece, text) == \E i \in 1..Len(text) : text[i] = piece

C14_NothingEscapes ==
    \A p \in Procs :
        (call[p].pc = "done" /\ call[p].flt > 0) => call[p].ret # "raised"

\* C15 as stated: without MANDRILL_API_KEY no operation issues a network call.
C15_NoKeyNoCall ==
    ~apiKey => \A p \in Procs :
                   call[p].nList + call[p].nCreate + call[p].nSend = 0

\* C16: send_sms catches a transport failure of the request (SSL error,
\* timeout, any other exception) in its except clauses, apart from the branch
\* for a rejecting HTTP status, and returns None; a non-200 answer also
\* yields None.
C16_SmsTransportCaught ==
    \A p \in Procs :
        LET c == call[p] IN
        (c.pc = "done" /\ c.op = "send_sms" /\ c.sendOut \notin {"none", "ok"})
        => /\ c.ret = "None"
           /\ c.log[1] = CASE c.sendOut = "ssl" -> "SSL Certificate Error!"
                           [] c.sendOut = "timeout" -> "Request Timeout!"
                           [] c.sendOut = "exception" -> "Error sending SMS!"
                           [] OTHER -> "SMS sending failed!"

C16_Witness ==
    \E p \in Procs :
        /\ call[p].pc = "done" /\ call[p].op = "send_sms"
        /\ call[p].sendOut = "ssl" /\ call[p].ret = "None"
        /\ call[p].log = <<"SSL Certificate Error!", "TIP: SSL_VERIFY=false">>

\* A scenario has run and its message was built.
PayloadBuilt == msg.op # "none" /\ ~msg.raised

\* A string of base64 characters (0..63, and 64 for "="): whole groups of
\* four, "=" only as the last one or two characters.
ValidBase64(s) ==
    /\ Len(s) % 4 = 0
    /\ \A i \in 1..Len(s) : s[i] \in 0..64
    /\ \A i \in 1..Len(s) : s[i] = 64 => (i >= Len(s) - 1 /\ s[Len(s)] = 64)

\* C17: every message a scenario builds, whatever the configuration and the
\* local files, has a non-empty 'to' list, and the content of each of its
\* attachments is valid base64.
C17_PayloadWellFormed ==
    PayloadBuilt
    => /\ Len(msg.message.to) > 0
       /\ \A i \in 1..Len(msg.message.attachments) :
              ValidBase64(msg.message.attachments[i].content)

\* A one-byte sample.pdf is attached as "/w==", before readme.txt.
C17_Witness ==
    /\ PayloadBuilt /\ msg.op = "send_email_with_attachments"
    /\ files["sample.pdf"].bytes = <<255>>
    /\ env["DEFAULT_TO_EMAIL"] = "None"
    /\ Len(msg.message.to) = 1
    /\ Len(msg.message.attachments) = 2
    /\ msg.message.attachments[1].content = <<63, 48, 64, 64>>

Missing(name) == files[name].state = "absent"

HasNamed(entries, name) == \E i \in 1..Len(entries) : entries[i].name = name

\* The scenarios that attach local files, and the files each of them reads.
AttachmentOps ==
    {"send_email_with_attachments", "send_bulk_email", "send_with_attachments",
     "send_kitchen_sink"}

FilesRead(op) == IF op = "send_bulk_email" THEN {"sample.pdf", "logo.png"} ELSE {"sample.pdf"}

\* C18: a scenario that attaches local files, run where none of them is
\* unreadable, raises nothing and sends its message; a missing sample.pdf or
\* logo.png is left out of it; and readme.txt is attached by the attachment
\* scenario whether sample.pdf exists or not.
C18_MissingFileOmitted ==
    (msg.op \in AttachmentOps
        /\ \A n \in FilesRead(msg.op) : files[n].state # "unreadable")
    => /\ ~msg.raised /\ msg.sent
       /\ Missing("sample.pdf") => ~HasNamed(msg.message.attachments, "sample.pdf")
       /\ Missing("logo.png") => ~HasNamed(msg.message.images, "logo.png")
       /\ msg.op \in {"send_email_with_attachments", "send_with_attachments"}
            => HasNamed(msg.message.attachments, "readme.txt")

C18_Witness ==
    /\ msg.op = "send_bulk_email" /\ Missing("sample.pdf") /\ Missing("logo.png")
    /\ msg.sent /\ msg.message.images = <<>>
    /\ Len(msg.message.attachments) = 1
    /\ msg.message.attachments[1].name = "readme.txt"

\* The address the scenario's configuration gives for the default recipient:
\* DEFAULT_TO_EMAIL, with its fallback in the CLI script.
ConfiguredRecipient(op) ==
    IF env["DEFAULT_TO_EMAIL"] # "None" THEN env["DEFAULT_TO_EMAIL"]
    ELSE IF op = "send_email" THEN "recipient@example.org" ELSE "None"

\* C19: the single-send message has subject "Hello world", an HTML body
\* containing "Hello HTML world!", and exactly one recipient, of type "to",
\* whose address is the configured default recipient.
C19_SingleSendPayload ==
    msg.op \in {"send_single_email", "send_email"}
    => /\ ~msg.raised
       /\ msg.message.subject = "Hello world"
       /\ InText("Hello HTML world!", msg.message.html)
       /\ Len(msg.message.to) = 1
       /\ msg.message.to[1].type = "to"
       /\ msg.message.to[1].email = ConfiguredRecipient(msg.op)

C19_Witness ==
    /\ msg.op = "send_single_email" /\ msg.sent
    /\ msg.message.to = <<[email |-> "ann@acme.test", name |-> "None", type |-> "to"]>>

InSeq(x, seq) == \E i \in 1..Len(seq) : seq[i] = x

\* The value of a form field, or its default when the request lacks it.
FieldOr(form, field, default) == IF field \in DOMAIN form THEN form[field] ELSE default

\* C20: the merge-tag message carries companyName and membershipLevel in
\* global_merge_vars as company_name and membership_level, and firstName and
\* lastName as fname and lname in the merge_vars entry of the default
\* recipient; a field the request lacks takes its default (John, Smith,
\* Intuit Developer Program, Premium).
C20_MergeTagPayload ==
    msg.op = "send_email_with_merge_tags"
    => /\ ~msg.raised
       /\ InSeq([name |-> "company_name",
                 content |-> FieldOr(msg.form, "companyName", "Intuit Developer Program")],
                msg.message.global_merge_vars)
       /\ InSeq([name |-> "membership_level",
                 content |-> FieldOr(msg.form, "membershipLevel", "Premium")],
                msg.message.global_merge_vars)
       /\ \E i \in 1..Len(msg.message.merge_vars) :
              /\ msg.message.merge_vars[i].rcpt = env["DEFAULT_TO_EMAIL"]
              /\ msg.message.merge_vars[i].rcpt = msg.message.to[1].email
              /\ InSeq([name |-> "fname",
                        content |-> FieldOr(msg.form, "firstName", "John")],
                       msg.message.merge_vars[i].vars)
              /\ InSeq([name |-> "lname",
                        content |-> FieldOr(msg.form, "lastName", "Smith")],
                       msg.message.merge_vars[i].vars)

\* firstName and companyName given, lastName and membershipLevel left out.
C20_Witness ==
    /\ msg.op = "send_email_with_merge_tags"
    /\ DOMAIN msg.form = {"firstName", "companyName"}
    /\ msg.message.global_merge_vars =
           << [name |-> "company_name", content |-> "Acme"],
              [name |-> "membership_level", content |-> "Premium"] >>
    /\ msg.message.merge_vars[1].vars =
           << [name |-> "fname", content |-> "Ann"],
              [name |-> "lname", content |-> "Smith"] >>

\* C21 as stated: a setting the environment lacks is replaced by a defined
\* default, so no sender or recipient field of a built message is None.
C21_SettingsHaveDefaults ==
    PayloadBuilt
    => /\ msg.message.from_email # "None"
       /\ msg.message.from_name # "None"
       /\ \A i \in 1..Len(msg.message.to) :
              msg.message.to[i].email # "None" /\ msg.message.to[i].name # "None"

RECURSIVE b64decode(_)
\* The bytes a base64 string stands for: three per group of four characters,
\* fewer where the group ends in "=" (64).
b64decode(s) ==
    IF Len(s) < 4 THEN <<>>
    ELSE (IF s[3] = 64
          THEN << s[1] * 4 + s[2] \div 16 >>
          ELSE IF s[4] = 64
               THEN << s[1] * 4 + s[2] \div 16, (s[2] % 16) * 16 + s[3] \div 4 >>
               ELSE << s[1] * 4 + s[2] \div 16, (s[2] % 16) * 16 + s[3] \div 4,
                       (s[3] % 4) * 64 + s[4] >>)
         \o b64decode(SubSeq(s, 5, Len(s)))

\* C22: what read_file_as_base64 returns for a readable file decodes to the
\* bytes of the file, and so does the sample.pdf attachment the CLI scripts
\* make of it.
C22_RoundTrip ==
    /\ \A n \in FileNames :
           files[n].state = "file"
           => /\ read_file_as_base64(files, n).error = "none"
              /\ ~read_file_as_base64(files, n).none
              /\ b64decode(read_file_as_base64(files, n).content) = files[n].bytes
    /\ (msg.op \in {"send_with_attachments", "send_kitchen_sink"}
            /\ HasNamed(msg.message.attachments, "sample.pdf"))
       => b64decode(msg.message.attachments[1].content) = files["sample.pdf"].bytes

\* The three bytes 4D 80 FE are attached as "TYD+".
C22_Witness ==
    /\ msg.op = "send_kitchen_sink"
    /\ files["sample.pdf"].bytes = <<77, 128, 254>>
    /\ msg.message.attachments[1].content = <<19, 24, 3, 62>>
    /\ b64decode(msg.message.attachments[1].content) = <<77, 128, 254>>

\* C23: no operation changes the registry TEMPLATES: at every moment each of
\* its entries is the one defined at import.
C23_RegistryUnchanged == registry = TEMPLATES

\* A CLI template send that created its template and sent with it.
C23_Witness ==
    \E p \in Procs :
        /\ call[p].pc = "done" /\ call[p].op = "send_with_template"
        /\ call[p].nCreate = 1 /\ call[p].nSend = 1
        /\ registry[call[p].name] = TEMPLATES[call[p].name]

\* The scenario each recognised script name stands for.
ScenarioOf(script) ==
    CASE script = "single" -> {"send_single_email"}
      [] script = "mergeTags" -> {"send_email_with_merge_tags"}
      [] script = "attachments" -> {"send_email_with_attachments"}
      [] script = "templates" -> {"send_email_with_template"}
      [] script = "allInOne" -> {"send_bulk_email"}
      [] OTHER -> {}

\* C24: a request to the dispatch route runs the one scenario of its script
\* name when the name is single, mergeTags, attachments, templates or
\* allInOne; for any other name it runs no scenario and issues no remote
\* call, flashes an error and redirects to the index page.
C24_DispatchOneScenario ==
    \A p \in Procs :
        LET c == call[p] IN
        c.script # "none"
        => IF ScenarioOf(c.script) # {}
           THEN c.op \in ScenarioOf(c.script) /\ c.flash = "none"
           ELSE /\ c.op \notin Ops
                /\ c.pc = "done"
                /\ c.nList + c.nCreate + c.nSend = 0
                /\ c.flash = "Invalid script selected. Please try again."
                /\ c.ret = "redirect index"

C24_Witness ==
    \E p, q \in Procs :
        /\ call[p].script = "sms" /\ call[p].pc = "done"
        /\ call[p].flash = "Invalid script selected. Please try again."
        /\ call[q].script = "allInOne" /\ call[q].op = "send_bulk_email"
        /\ call[q].nSend = 1

\* The remote calls of an invocation so far follow list, create, send, with
\* the create call optional.
InOrder(calls) ==
    \E full \in {<<"list", "send">>, <<"list", "add", "send">>} :
        \E k \in 0..Len(full) : calls = SubSeq(full, 1, k)

HasCall(c, x) == \E i \in 1..Len(c.calls) : c.calls[i] = x

\* C25 as stated: a template send calls list, then at most once create, then
\* send; create only after the list call reported the template absent, send
\* only after the ensure step finished.
C25_ListCreateSend ==
    \A p \in Procs :
        LET c == call[p] IN
        c.op \in TemplateSendOps
        => /\ InOrder(c.calls)
           /\ HasCall(c, "add") => (c.listOut = "ok" /\ ~c.listHeld)
           /\ HasCall(c, "send") => c.ens # "none"

\* C25 amended: a template send calls list, then at most once create, then
\* send; create only after the existence check answered false, which it does
\* when the list call reported the template absent and also when the list
\* call failed (with an API error, or in the web app with any exception);
\* send only after the ensure step finished.
C25_CheckCreateSend ==
    \A p \in Procs :
        LET c == call[p] IN
        c.op \in TemplateSendOps
        => /\ InOrder(c.calls)
           /\ HasCall(c, "add")
                => /\ c.exists = "False"
                   /\ \/ c.listOut = "ok" /\ ~c.listHeld
                      \/ c.listOut = "api_error"
                      \/ c.listOut = "exception" /\ c.op = "send_email_with_template"
           /\ HasCall(c, "send") => c.ens # "none"

C25_Witness ==
    \E p \in Procs :
        /\ call[p].op = "send_email_with_template" /\ call[p].pc = "done"
        /\ call[p].calls = <<"list", "add", "send">>
        /\ call[p].listOut = "ok"

\* C26: in the CLI, when ensure_template_exists returns False,
\* send_with_template and send_template_to_multiple_recipients return None
\* and issue no messages.send_template.
C26_NoSendAfterFailedEnsure ==
    \A p \in Procs :
        LET c == call[p] IN
        (c.op \in {"send_with_template", "send_template_to_multiple_recipients"}
            /\ c.ens \in {"unknown", "rejected"})
        => /\ c.pc = "done" /\ c.ret = "None"
           /\ c.nSend = 0 /\ ~HasCall(c, "send")

C26_Witness ==
    \E p, q \in Procs :
        /\ call[p].op = "send_template_to_multiple_recipients"
        /\ call[p].ens = "rejected" /\ call[p].ret = "None" /\ call[p].nSend = 0
        /\ call[q].op = "send_with_template"
        /\ call[q].ens = "unknown" /\ call[q].ret = "None" /\ call[q].nSend = 0

\* C27: in the web template scenario, once createTemplate has returned
\* (template present, created, unknown to the registry, or create rejected),
\* messages.send_template is called, exactly once, with the template name of
\* the form.
C27_SendAfterCreateTemplate ==
    \A p \in Procs :
        LET c == call[p] IN
        (c.op = "send_email_with_template"
            /\ c.ens \in {"exists", "created", "unknown", "rejected"})
        => /\ c.pc \in {"send", "done"}
           /\ c.pc = "send" => c.nSend = 0
           /\ c.pc = "done" => (c.nSend = 1 /\ c.sentName = c.name)

\* The create call was rejected and the send went out all the same.
C27_Witness ==
    \E p \in Procs :
        /\ call[p].op = "send_email_with_template" /\ call[p].pc = "done"
        /\ call[p].ens = "rejected" /\ call[p].nSend = 1
        /\ call[p].sentName = call[p].name

\* The remote calls createTemplate issues when the list call answers as it
\* did for invocation c.
WebEnsureCalls(c) ==
    LET resp == Response(c.listOut, c.listHeld, "none") IN
    IF ensure_branch(web_template_exists(resp), c.name) = "add"
    THEN <<"list", "add">> ELSE <<"list">>

\* The remote calls ensure_template_exists issues for the same answer.
CliEnsureCalls(c) ==
    LET resp == Response(c.listOut, c.listHeld, "none") IN
    IF ensure_branch(cli_template_exists(resp), c.name) = "add"
    THEN <<"list", "add">> ELSE <<"list">>

\* C28 as stated: for the same template name and the same answer of the list
\* call, ensure_template_exists and createTemplate issue the same remote
\* calls.
C28_SameRemoteCalls ==
    \A p \in Procs :
        LET c == call[p] IN
        (c.pc = "done" /\ c.nList = 1)
        => /\ c.op = "ensure_template_exists" => c.calls = WebEnsureCalls(c)
           /\ c.op = "createTemplate" => c.calls = CliEnsureCalls(c)

SmsTruthy(c) == c.sendOut = "ok" /\ c.shape # "empty"

\* The value is a list whose first entry has status rejected.
SmsFirstRejected(c) == c.shape \in {"rejected", "rejected_no_reason"}

\* C30: send_sms_with_error_handling returns success true, with 'data',
\* exactly when send_sms returned a truthy result whose first entry is not
\* rejected; otherwise (None, an empty result, a rejected first entry) it
\* returns success false with 'error' and without 'data'.
C30_SmsWrapperResult ==
    \A p \in Procs :
        LET c == call[p] IN
        (c.op = "send_sms_with_error_handling" /\ c.pc = "done")
        => /\ c.res.success = (SmsTruthy(c) /\ ~SmsFirstRejected(c))
           /\ c.res.success => c.res.keys = {"success", "data"}
           /\ ~c.res.success => (c.res.keys = {"success", "error"} /\ c.res.error # <<>>)

C30_Witness ==
    \E p, q \in Procs :
        /\ call[p].op = "send_sms_with_error_handling" /\ call[p].pc = "done"
        /\ call[p].shape = "rejected_no_reason" /\ ~call[p].res.success
        /\ call[p].res.error = <<"Rejected: ", "Unknown reason">>
        /\ call[q].op = "send_sms_with_error_handling" /\ call[q].pc = "done"
        /\ call[q].shape = "sent" /\ call[q].res.success

TypeOK ==
    /\ apiKey \in BOOLEAN
    /\ faults \in 0..MaxFaults
    /\ \A p \in Procs : call[p].pc \in {"idle", "list", "add", "send", "done"}
====
